---- MODULE Spec2Model ----
(***************************************************************************)
(* Model of the bulk void tool (src/app.py): the orchestrator main(), the  *)
(* batch driver process_void_job(), the per-item lookup-then-mutate        *)
(* protocol void_invoice() and the validation-error analysis it contains.  *)
(*                                                                         *)
(* Invoice numbers are the integers 1..n.  Time is counted in ticks of     *)
(* half a second.  Monetary amounts are counted in cents.                  *)
(***************************************************************************)
EXTENDS Integers, Sequences, FiniteSets, TLC

(* ------------------------------ bounds -------------------------------- *)
\* Largest identifier set of the small runs.
MaxIds == 2
\* Largest number of entries in one ValidationErrors list.
MaxMsgs == 2
\* Longest duration of one remote call, in ticks.
MaxLatency == 1
\* Longest overshoot of one time.sleep, in ticks.
MaxOversleep == 1
\* The bulk runs take the set sizes within this distance of the threshold.
BulkSpread == 1
\* The runs looked at between two items have at most this many numbers,
MaxTotal == 25
\* have lasted at most this many ticks,
MaxElapsed == 3
\* or this many hours.
MaxHours == 2

(* ------------------------- program constants -------------------------- *)
\* len(all_invoice_ids) > 60
ThrottleThreshold == 60
\* time.sleep(1.5), in ticks
SleepTicks == 3
\* "60 API calls max per minute"
RateLimit == 60
\* one minute, in ticks
WindowTicks == 120
\* difference <= 0.02, in cents
Tolerance == 2
\* difference <= 0.05, in cents
LooseTolerance == 5
\* seconds of a day: time.strftime("%H:%M:%S", time.gmtime(..)) wraps there
DaySeconds == 86400

(* --------------------- validation messages (text) --------------------- *)
\* A message text is a sequence of tokens: words, decimal numbers (with a
\* decimal point, valued in cents) and integers written without a point.
Text(s) == [k |-> "text", s |-> s, v |-> 0]
Dec(c) == [k |-> "dec", s |-> "", v |-> c]
Int0(n) == [k |-> "int", s |-> "", v |-> n]

\* str.lower() on the words the messages are built from
Lower(s) ==
  CASE s = "Line Total" -> "line total"
    [] s = "LINE TOTAL" -> "line total"
    [] s = "Expected" -> "expected"
    [] OTHER -> s

\* 'line total' in error['Message'].lower()
MentionsLineTotal(msg) ==
  \E i \in DOMAIN msg : msg[i].k = "text" /\ Lower(msg[i].s) = "line total"

\* re.findall(r'\d+\.\d+', error['Message']): the decimal numbers, in order
IsDec(t) == t.k = "dec"
FindNumbers(msg) == SelectSeq(msg, IsDec)

Abs(x) == IF x < 0 THEN -x ELSE x

\* The pairs of amounts of this model (actual, expected, tolerance, in cents)
\* whose decimal difference equals the tolerance and whose difference as
\* IEEE-754 doubles exceeds it: abs(float("1.02") - float("1.00")) is
\* 0.020000000000000018, and 0.020000000000000018 <= 0.02 is False.
FloatExcess == {<<102, 100, 2>>}

\* abs(float(actual) - float(expected)) <= tolerance, computed in doubles:
\* the decimal comparison, except where the rounding of the operands decides.
FloatDiffWithin(actual, expected, tol) ==
  /\ Abs(actual - expected) <= tol
  /\ <<actual, expected, tol>> \notin FloatExcess

\* The line-total test of one message against a tolerance tol (lines 296-306):
\* at least two numbers, and the first two differ by no more than tol
LineTotalWithin(msg, tol) ==
  /\ MentionsLineTotal(msg)
  /\ LET numbers == FindNumbers(msg)
     IN  /\ Len(numbers) >= 2
         /\ FloatDiffWithin(numbers[1].v, numbers[2].v, tol)

(* ------------------------- JSON response bodies ----------------------- *)
\* A decoded body: kind "object" (a dict, val holds it), "array" (a JSON list
\* at top level) or "invalid" (response.json() raises a decode error).
Obj(val) == [kind |-> "object", val |-> val]
NoVal == [Undecoded |-> TRUE]
ArrayBody == [kind |-> "array", val |-> NoVal]
InvalidBody == [kind |-> "invalid", val |-> NoVal]

\* key in dict
Has(d, key) == key \in DOMAIN d

\* An entry of a ValidationErrors list: error['Message'] raises KeyError when
\* the entry has no Message.
Entry(msg) == [Message |-> msg]
BadEntry == [Code |-> 17]

\* the entries of every element's ValidationErrors list, in iteration order
RECURSIVE ElementErrors(_)
ElementErrors(elements) ==
  IF elements = <<>> THEN <<>>
  ELSE (IF Has(Head(elements), "ValidationErrors")
          THEN Head(elements)["ValidationErrors"] ELSE <<>>)
       \o ElementErrors(Tail(elements))

\* if 'ValidationErrors' in error_response: the top-level entries
TopErrors(er) ==
  IF Has(er, "ValidationErrors") THEN er["ValidationErrors"] ELSE <<>>

\* if 'Elements' in error_response and len(error_response['Elements']) > 0
NestedErrors(er) ==
  IF Has(er, "Elements") /\ Len(er["Elements"]) > 0
    THEN ElementErrors(er["Elements"]) ELSE <<>>

\* an Elements key taken for validation errors
HasValidationErrorsAnyElements(er) ==
  \/ Has(er, "ValidationErrors")
  \/ Has(er, "Elements")

HasValidationErrors(er) ==
  \/ Has(er, "ValidationErrors")
  \/ /\ Has(er, "Elements") /\ Len(er["Elements"]) > 0
     /\ \E i \in DOMAIN er["Elements"] : Has(er["Elements"][i], "ValidationErrors")

\* has_minor_rounding_error after both loops (lines 290-331)
HasMinorRoundingError(er) ==
  LET all == TopErrors(er) \o NestedErrors(er)
  IN  \E i \in DOMAIN all : LineTotalWithin(all[i].Message, Tolerance)

\* is_potential_rounding_error (lines 341-357): the Elements entries only
IsPotentialRoundingError(er) ==
  LET nested == NestedErrors(er)
  IN  \E i \in DOMAIN nested : LineTotalWithin(nested[i].Message, LooseTolerance)

\* some visited entry has no 'Message': the loops raise KeyError
RaisesKeyError(er) ==
  LET all == TopErrors(er) \o NestedErrors(er)
  IN  \E i \in DOMAIN all : ~Has(all[i], "Message")

\* The analysis of a failed void response (lines 284-370), by the branch whose
\* guidance is printed.
AnalyseError(body) ==
  IF body.kind = "invalid" THEN "error_processing"
  ELSE IF body.kind = "array" THEN "no_validation_errors"
  ELSE LET er == body.val
       IN  IF RaisesKeyError(er) THEN "error_processing"
           ELSE IF ~HasValidationErrors(er) THEN "no_validation_errors"
           ELSE IF HasMinorRoundingError(er) THEN "minor_rounding"
           ELSE IF IsPotentialRoundingError(er) THEN "potential_rounding"
           ELSE "not_rounding"

\* The outcome the operator is told, per branch.
OutcomeOfAnalysis(a) ==
  CASE a = "minor_rounding" -> "RetriableValidationError"
    [] a = "potential_rounding" -> "RetriableValidationError"
    [] a = "not_rounding" -> "FatalValidationError"
    [] a = "no_validation_errors" -> "FatalValidationError"
    [] OTHER -> "UnexpectedError"

(* ------------------------ the remote service -------------------------- *)
\* A remote call either raises requests.exceptions.RequestException (raised)
\* or returns a response with a status code and a body.
Response(status, body) == [raised |-> FALSE, status |-> status, body |-> body]
ConnectionError == [raised |-> TRUE, status |-> 0, body |-> InvalidBody]

\* the remote resource ID of invoice number n
RemoteId(n) == 1000 + n

\* the name of the ID field in the collection vt
ListItem(vt, n) ==
  IF vt = "Invoices" THEN [InvoiceID |-> RemoteId(n)]
  ELSE [CreditNoteID |-> RemoteId(n)]

\* { "<Collection>": items }
Listing(vt, items) ==
  IF vt = "Invoices" THEN Obj([Invoices |-> items])
  ELSE Obj([CreditNotes |-> items])

\* What the filtered GET of the collection (line 204) may answer.
ResolveResponses(vt, n) ==
  { Response(200, Listing(vt, <<ListItem(vt, n)>>)),
    Response(200, Listing(vt, <<>>)),
    Response(200, Listing(vt, <<[Status |-> "DRAFT"]>>)),
    Response(200, ArrayBody),
    Response(200, InvalidBody),
    Response(204, InvalidBody),
    Response(429, InvalidBody),
    ConnectionError }

\* The full resource as the remote service returns it.
FullInvoice(n, st) ==
  [InvoiceID |-> RemoteId(n), Status |-> st, Type |-> "ACCREC",
   Contact |-> "contact", Date |-> "date", DueDate |-> "due",
   LineAmountTypes |-> "Exclusive", LineItems |-> "items", Total |-> "total"]
\* The resource returned with its Type alone.
SparseInvoice(n) == [Type |-> "ACCREC"]

\* What the GET of one resource (line 222) may answer.
InspectResponses(vt, n) ==
  { Response(200, Listing(vt, <<FullInvoice(n, "AUTHORISED")>>)),
    Response(200, Listing(vt, <<FullInvoice(n, "VOIDED")>>)),
    Response(200, Listing(vt, <<SparseInvoice(n)>>)),
    Response(200, Listing(vt, <<>>)),
    Response(200, InvalidBody),
    Response(500, InvalidBody),
    ConnectionError }

\* validation messages of the remote service
Mismatch(word, actual, expected) ==
  <<Text(word), Dec(actual), Text("expected"), Dec(expected)>>
Messages ==
  { Mismatch("Line Total", 10000, 10002),
    Mismatch("line total", 10003, 10000),
    Mismatch("line total", 102, 100),
    Mismatch("line total", 10000, 10005),
    Mismatch("LINE TOTAL", 10000, 10010),
    <<Text("status"), Dec(10000), Text("Expected"), Dec(10000)>>,
    <<Text("line total"), Dec(10000), Text("expected"), Int0(100)>> }
Entries == {Entry(m) : m \in Messages} \cup {BadEntry}

\* the lists of at most n entries
RECURSIVE EntryLists(_)
EntryLists(n) ==
  IF n = 0 THEN {<<>>}
  ELSE LET shorter == EntryLists(n - 1)
       IN  shorter \cup {Append(l, e) : l \in {x \in shorter : Len(x) = n - 1}, e \in Entries}

\* an element of the Elements list, with or without its ValidationErrors
Elements ==
  {<<>>, <<[InvoiceID |-> RemoteId(0)]>>}
  \cup {<<[ValidationErrors |-> l]>> : l \in EntryLists(MaxMsgs)}

\* The bodies of a failed void: the two ValidationErrors shapes, both, neither.
ErrorObjects ==
  {[Type |-> "Error"]}
  \cup {[ValidationErrors |-> l] : l \in EntryLists(MaxMsgs)}
  \cup {[Elements |-> e] : e \in Elements}
  \cup {[ValidationErrors |-> l, Elements |-> e] : l \in EntryLists(MaxMsgs), e \in Elements}
ErrorBodies == {Obj(o) : o \in ErrorObjects} \cup {ArrayBody, InvalidBody}

\* The failure bodies the batch runs draw from: one per analysis branch.
SampleBodies ==
  { Obj([ValidationErrors |-> <<Entry(Mismatch("line total", 10000, 10002))>>]),
    Obj([Elements |-> <<[ValidationErrors |-> <<Entry(Mismatch("line total", 10000, 10005))>>]>>]),
    Obj([ValidationErrors |-> <<Entry(Mismatch("line total", 10000, 10005))>>]),
    Obj([Type |-> "Error"]),
    InvalidBody }

\* What the void POST (line 276) may answer.
MutateResponses ==
  { Response(200, InvalidBody), Response(204, InvalidBody), ConnectionError }
  \cup {Response(400, b) : b \in SampleBodies}

(* ------------------------------ state --------------------------------- *)
VARIABLES
  entry,            \* "main": the tool as run; "job": process_void_job called directly
  DRY_RUN,          \* config["DEFAULT"]["DRY_RUN"]
  VOID_TYPE,        \* config["DEFAULT"]["VOID_TYPE"]
  all_invoice_ids,  \* the deduplicated set of invoice numbers
  order,            \* the order in which iterating the set yields its elements
  latency,          \* duration of each remote call of the run, in ticks
  oversleep,        \* overshoot of each time.sleep of the run, in ticks
  pc,               \* position in the program
  all_at_once,      \* process_void_job's flag
  total_invoices,   \* process_void_job's local
  processed,        \* process_void_job's local
  idx,              \* enumerate(invoice_ids, start=1)
  start_time,       \* process_void_job's local
  now,              \* the wall clock, in ticks
  eta,              \* eta_formatted
  invoice_number,   \* void_invoice's argument
  invoice_id,       \* void_invoice's local (from the resolve listing)
  invoice,          \* void_invoice's local (from the inspect response)
  started,          \* history: the calls of void_invoice, [id, t]
  calls,            \* history: the remote calls issued, [id, op, t, status, got, item, sent]
  report,           \* history: how each call of void_invoice ended, [id, outcome, detail]
  events,           \* history: the progress lines printed, [id, ok, processed, total, eta]
  remote_voided,    \* the invoice numbers whose void the remote service accepted
  void_res,         \* the body of the void response under analysis
  analysis          \* the branch the analysis of void_res took

config == <<entry, DRY_RUN, VOID_TYPE, all_invoice_ids, order, latency, oversleep>>
job == <<all_at_once, total_invoices, processed, idx, start_time, eta>>
tx == <<invoice_number, invoice_id, invoice>>
history == <<started, calls, report, events, remote_voided>>
classifier == <<void_res, analysis>>
vars == <<config, job, tx, history, classifier, pc, now>>

\* the orders in which a set can be enumerated
RECURSIVE Orders(_)
Orders(S) ==
  IF S = {} THEN {<<>>}
  ELSE UNION {{<<x>> \o o : o \in Orders(S \ {x})} : x \in S}

NoInvoice == [InvoiceID |-> 0]
NoPayload == [Invoices |-> <<>>]
UnknownEta == [known |-> FALSE, secs |-> 0]

\* the values every run starts from
Blank ==
  /\ total_invoices = 0
  /\ processed = 0
  /\ idx = 0
  /\ start_time = 0
  /\ now = 0
  /\ eta = UnknownEta
  /\ invoice_number = 0
  /\ invoice_id = 0
  /\ invoice = NoInvoice
  /\ started = <<>>
  /\ calls = <<>>
  /\ report = <<>>
  /\ events = <<>>
  /\ remote_voided = {}
  /\ void_res = InvalidBody
  /\ analysis = "none"

\* pacing from 60 numbers on
ChooseAllAtOnceBelow(ids) == ~(Cardinality(ids) >= ThrottleThreshold)

\* the caller's rule (lines 414-419)
ChooseAllAtOnce(ids) == ~(Cardinality(ids) > ThrottleThreshold)

\* the durations of a remote call: immediate, or the longest
Latencies == {0, MaxLatency}

\* the overshoots a run can see: none when it never sleeps
Oversleeps(flag) == IF flag THEN {0} ELSE {0, MaxOversleep}

\* The tool started on a config.ini and the invoice numbers of the CSV files.
InitMain ==
  /\ entry = "main"
  /\ pc = "config"
  /\ DRY_RUN \in {"Enabled", "Disabled", "enabled"}
  /\ VOID_TYPE \in {"Invoices", "CreditNotes", "Bills"}
  /\ \E n \in 0..MaxIds : all_invoice_ids = 1..n
  /\ order \in Orders(all_invoice_ids)
  /\ latency \in Latencies
  /\ oversleep \in Oversleeps(ChooseAllAtOnce(all_invoice_ids))
  /\ all_at_once = TRUE
  /\ Blank

\* process_void_job called on its own, with any set and any flag.
InitJob ==
  /\ entry = "job"
  /\ pc = "job"
  /\ DRY_RUN = "Disabled"
  /\ VOID_TYPE \in {"Invoices", "CreditNotes"}
  /\ \E n \in 0..MaxIds : all_invoice_ids = 1..n
  /\ order \in Orders(all_invoice_ids)
  /\ latency \in Latencies
  /\ all_at_once \in BOOLEAN
  /\ oversleep \in Oversleeps(all_at_once)
  /\ Blank

(* ------------------------- check_config, main -------------------------- *)
\* check_config (lines 26-38): sys.exit(1) on an unsupported setting
CheckConfig ==
  /\ pc = "config"
  /\ pc' = IF DRY_RUN \in {"Enabled", "Disabled"} /\ VOID_TYPE \in {"Invoices", "CreditNotes"}
             THEN "main" ELSE "exit_1"
  /\ UNCHANGED <<config, job, tx, history, classifier, now>>

\* the flag compared with another spelling
IsDryRunTrue(flag) == flag = "True"

\* DRY_RUN == "Enabled" (line 410)
IsDryRun(flag) == flag = "Enabled"

\* main (lines 405-419), after the token and the CSV files were read
Main ==
  /\ pc = "main"
  /\ IF all_invoice_ids = {}
       THEN pc' = "exit_0" /\ UNCHANGED all_at_once
       ELSE IF IsDryRun(DRY_RUN)
         THEN pc' = "dry_run" /\ UNCHANGED all_at_once
         ELSE pc' = "job" /\ all_at_once' = ChooseAllAtOnce(all_invoice_ids)
  /\ UNCHANGED <<config, total_invoices, processed, idx, start_time, eta>>
  /\ UNCHANGED <<tx, history, classifier, now>>

(* -------------------------- process_void_job --------------------------- *)
\* the delay taken before the set is looked at
StartJobSleepFirst ==
  /\ pc = "job"
  /\ total_invoices' = Len(order)
  /\ now' = now + (IF all_at_once THEN 0 ELSE SleepTicks + oversleep)
  /\ IF Len(order) = 0
       THEN pc' = "returned" /\ UNCHANGED <<start_time, processed, idx>>
       ELSE pc' = "loop" /\ start_time' = now' /\ processed' = 0 /\ idx' = 1
  /\ UNCHANGED <<config, all_at_once, eta, tx, history, classifier>>

\* the count started at one
StartJobFromOne ==
  /\ pc = "job"
  /\ total_invoices' = Len(order)
  /\ IF Len(order) = 0
       THEN pc' = "returned" /\ UNCHANGED <<start_time, processed, idx>>
       ELSE pc' = "loop" /\ start_time' = now /\ processed' = 1 /\ idx' = 1
  /\ UNCHANGED <<config, all_at_once, eta, tx, history, classifier, now>>

\* lines 154-162
StartJob ==
  /\ pc = "job"
  /\ total_invoices' = Len(order)
  /\ IF Len(order) = 0
       THEN pc' = "returned" /\ UNCHANGED <<start_time, processed, idx>>
       ELSE pc' = "loop" /\ start_time' = now /\ processed' = 0 /\ idx' = 1
  /\ UNCHANGED <<config, all_at_once, eta, tx, history, classifier, now>>

\* a sleep of one second
DelayOneSecond(flag, over) == IF flag THEN 0 ELSE 2 + over

\* the delay before an item (lines 165-168): time.sleep sleeps at least 1.5 s
Delay(flag, over) == IF flag THEN 0 ELSE SleepTicks + over

\* eta_formatted (lines 170-177), at clock t
EtaAt(t, start, done, total) ==
  IF done > 0
    THEN [known |-> TRUE,
          secs |-> (((total - done) * (t - start)) \div (2 * done)) % DaySeconds]
    ELSE UnknownEta

\* One turn of the loop up to the call of void_invoice (lines 164-179).
Iterate ==
  /\ pc = "loop"
  /\ idx <= total_invoices
  /\ now' = now + Delay(all_at_once, oversleep)
  /\ eta' = EtaAt(now', start_time, processed, total_invoices)
  /\ invoice_number' = order[idx]
  /\ started' = Append(started, [id |-> order[idx], t |-> now'])
  /\ pc' = "resolve"
  /\ UNCHANGED <<config, all_at_once, total_invoices, processed, idx, start_time>>
  /\ UNCHANGED <<invoice_id, invoice, calls, report, events, remote_voided, classifier>>

\* processed counted only for an invoice that was voided
CountVoidedOnly ==
  /\ pc = "count"
  /\ processed' = IF report[Len(report)].outcome = "Voided" THEN processed + 1 ELSE processed
  /\ idx' = idx + 1
  /\ pc' = "loop"
  /\ UNCHANGED <<config, all_at_once, total_invoices, start_time, eta>>
  /\ UNCHANGED <<tx, history, classifier, now>>

\* void_invoice returned: processed += 1 (line 180)
Count ==
  /\ pc = "count"
  /\ processed' = processed + 1
  /\ idx' = idx + 1
  /\ pc' = "loop"
  /\ UNCHANGED <<config, all_at_once, total_invoices, start_time, eta>>
  /\ UNCHANGED <<tx, history, classifier, now>>

\* the set is exhausted (lines 182-184)
Finish ==
  /\ pc = "loop"
  /\ idx > total_invoices
  /\ pc' = "done"
  /\ UNCHANGED <<config, job, tx, history, classifier, now>>

(* ----------------------------- void_invoice ---------------------------- *)
\* How one step of void_invoice ends: it goes on with a value, returns with
\* an outcome, or raises.
Continue(v) == [kind |-> "continue", outcome |-> "", detail |-> "", value |-> v]
Return(o, d, v) == [kind |-> "return", outcome |-> o, detail |-> d, value |-> v]
Raise(e, v) == [kind |-> "raise", outcome |-> "", detail |-> e, value |-> v]

\* only the network errors handled
CaughtNetworkOnly(e) == e = "RequestException"

\* the except clauses of void_invoice (lines 372-383)
Caught(e) == e \in {"RequestException", "JSONDecodeError", "Exception"}
\* every exception reported as unexpected
OutcomeOfExceptionUnexpected(e) == "UnexpectedError"

OutcomeOfException(e) ==
  IF e \in {"RequestException", "JSONDecodeError"} THEN "NetworkError"
  ELSE "UnexpectedError"

\* the void attempted as soon as a step goes on
NextPcStraightToMutate(res, cont) ==
  CASE res.kind = "continue" -> "mutate"
    [] res.kind = "return" -> "count"
    [] OTHER -> IF Caught(res.detail) THEN "count"
                ELSE IF entry = "main" THEN "main_error" ELSE "raised"

\* where control is after a step
NextPc(res, cont) ==
  CASE res.kind = "continue" -> cont
    [] res.kind = "return" -> "count"
    [] OTHER -> IF Caught(res.detail) THEN "count"
                ELSE IF entry = "main" THEN "main_error" ELSE "raised"

\* the end of the transaction, as the operator is told it
Reported(res) ==
  CASE res.kind = "continue" -> report
    [] res.kind = "return" ->
         Append(report, [id |-> invoice_number, outcome |-> res.outcome, detail |-> res.detail])
    [] OTHER ->
         IF Caught(res.detail)
           THEN Append(report, [id |-> invoice_number,
                                outcome |-> OutcomeOfException(res.detail),
                                detail |-> res.detail])
           ELSE report

\* what the remote service answered, for the history
Matches(r) ==
  IF r.raised \/ r.status # 200 \/ r.body.kind # "object" THEN "failed"
  ELSE LET d == r.body.val
           items == IF Has(d, "Invoices") THEN d["Invoices"]
                    ELSE IF Has(d, "CreditNotes") THEN d["CreditNotes"] ELSE <<>>
       IN  IF Len(items) = 0 THEN "empty" ELSE "match"
StatusOf(r) ==
  IF r.raised \/ r.status # 200 \/ r.body.kind # "object" THEN "failed"
  ELSE LET d == r.body.val
           items == IF Has(d, "Invoices") THEN d["Invoices"]
                    ELSE IF Has(d, "CreditNotes") THEN d["CreditNotes"] ELSE <<>>
       IN  IF Len(items) = 0 THEN "failed"
           ELSE IF Has(items[1], "Status") THEN items[1]["Status"] ELSE "absent"
\* the first resource of the answer, as received
ItemOf(r) ==
  IF r.raised \/ r.status # 200 \/ r.body.kind # "object" THEN NoInvoice
  ELSE LET d == r.body.val
           items == IF Has(d, "Invoices") THEN d["Invoices"]
                    ELSE IF Has(d, "CreditNotes") THEN d["CreditNotes"] ELSE <<>>
       IN  IF Len(items) = 0 THEN NoInvoice ELSE items[1]
Call(op, r, got, sent) ==
  [id |-> invoice_number, op |-> op, t |-> now,
   status |-> IF r.raised THEN 0 ELSE r.status, got |-> got,
   item |-> ItemOf(r), sent |-> sent]

\* the key tested, not the list
NoMatchKeyOnly(data) == ~Has(data, "Invoices")

\* not data.get('Invoices') (line 212)
NoMatch(data) == ~Has(data, "Invoices") \/ Len(data["Invoices"]) = 0

\* 1) Find the invoice by number (lines 204-218)
ResolveResult(r) ==
  IF r.raised THEN Raise("RequestException", 0)
  ELSE IF r.status # 200 THEN Return("NetworkError", "list", 0)
  ELSE IF r.body.kind = "invalid" THEN Raise("JSONDecodeError", 0)
  ELSE IF r.body.kind = "array" THEN Raise("Exception", 0)
  ELSE LET data == r.body.val
       IN  IF NoMatch(data) THEN Return("NotFound", "", 0)
           ELSE IF Len(data["Invoices"]) = 0 THEN Raise("Exception", 0)
           ELSE IF ~Has(data["Invoices"][1], "InvoiceID") THEN Raise("Exception", 0)
           ELSE Continue(data["Invoices"][1]["InvoiceID"])

Resolve(r) ==
  /\ pc = "resolve"
  /\ calls' = Append(calls, Call("resolve", r, Matches(r), NoPayload))
  /\ now' = now + latency
  /\ LET res == ResolveResult(r)
     IN  /\ pc' = NextPc(res, "inspect")
         /\ report' = Reported(res)
         /\ invoice_id' = IF res.kind = "continue" THEN res.value ELSE invoice_id
  /\ UNCHANGED <<config, job, invoice_number, invoice, started, events, remote_voided, classifier>>

\* the status compared in the wrong case
IsVoidedLower(current_status) == current_status = "voided"

\* current_status == 'VOIDED' (line 233)
IsVoided(current_status) == current_status = "VOIDED"

\* 2) Fetch full invoice details (lines 221-235)
InspectResult(r) ==
  IF r.raised THEN Raise("RequestException", NoInvoice)
  ELSE IF r.status # 200 THEN Return("NetworkError", "details", NoInvoice)
  ELSE IF r.body.kind = "invalid" THEN Raise("JSONDecodeError", NoInvoice)
  ELSE IF r.body.kind = "array" THEN Raise("Exception", NoInvoice)
  ELSE LET data == r.body.val
       IN  IF ~Has(data, "Invoices") THEN Raise("Exception", NoInvoice)
           ELSE IF Len(data["Invoices"]) = 0 THEN Raise("Exception", NoInvoice)
           ELSE LET inv == data["Invoices"][1]
                    current_status == IF Has(inv, "Status") THEN inv["Status"] ELSE "UNKNOWN"
                IN  IF IsVoided(current_status)
                      THEN Return("AlreadyVoided", "", inv)
                      ELSE Continue(inv)

Inspect(r) ==
  /\ pc = "inspect"
  /\ calls' = Append(calls, Call("inspect", r, StatusOf(r), NoPayload))
  /\ now' = now + latency
  /\ LET res == InspectResult(r)
     IN  /\ pc' = NextPc(res, "mutate")
         /\ report' = Reported(res)
         /\ invoice' = IF res.kind = "continue" THEN res.value ELSE invoice
  /\ UNCHANGED <<config, job, invoice_number, invoice_id, started, events, remote_voided, classifier>>

\* the fields carried over from the inspected invoice (lines 259-270)
Carried == {"Type", "Contact", "Date", "DueDate", "LineAmountTypes", "LineItems"}

\* the line items rebuilt by the caller instead of copied
VoidInvoiceDataRebuilt(id, inv) ==
  [f \in {"InvoiceID", "Status"} \cup (Carried \cap DOMAIN inv) |->
     IF f = "InvoiceID" THEN id
     ELSE IF f = "Status" THEN "VOIDED"
     ELSE IF f = "LineItems" THEN "rebuilt" ELSE inv[f]]

\* void_invoice_data and void_payload (lines 253-274)
VoidInvoiceData(id, inv) ==
  [f \in {"InvoiceID", "Status"} \cup (Carried \cap DOMAIN inv) |->
     IF f = "InvoiceID" THEN id ELSE IF f = "Status" THEN "VOIDED" ELSE inv[f]]
VoidPayload(id, inv) == [Invoices |-> <<VoidInvoiceData(id, inv)>>]

\* 204 forgotten
IsSuccess200(status) == status = 200

\* void_res.status_code in (200, 204)
IsSuccess(status) == status \in {200, 204}

\* 3) Void via update endpoint (lines 276-371)
MutateResult(r) ==
  IF r.raised THEN Raise("RequestException", "none")
  ELSE IF IsSuccess(r.status) THEN Return("Voided", "", "none")
  ELSE LET a == AnalyseError(r.body)
       IN  Return(OutcomeOfAnalysis(a), a, a)

\* the progress line (lines 278 and 371)
Progress(ok) ==
  [id |-> invoice_number, ok |-> ok, processed |-> processed + 1,
   total |-> total_invoices, eta |-> eta]

Mutate(r) ==
  /\ pc = "mutate"
  /\ calls' = Append(calls, Call("mutate", r, "", VoidPayload(invoice_id, invoice)))
  /\ now' = now + latency
  /\ LET res == MutateResult(r)
     IN  /\ pc' = NextPc(res, "count")
         /\ report' = Reported(res)
         /\ events' = IF res.kind = "return"
                        THEN Append(events, Progress(res.outcome = "Voided"))
                        ELSE events
         /\ remote_voided' = IF res.kind = "return" /\ res.outcome = "Voided"
                               THEN remote_voided \cup {invoice_number}
                               ELSE remote_voided
         /\ void_res' = IF res.kind = "return" /\ res.outcome # "Voided"
                          THEN r.body ELSE void_res
         /\ analysis' = IF res.kind = "return" /\ res.outcome # "Voided"
                          THEN res.value ELSE analysis
  /\ UNCHANGED <<config, job, tx, started>>

(* --------------------------- specifications ---------------------------- *)
\* the steps of process_void_job and of the void_invoice calls it makes
JobNext ==
  \/ StartJob
  \/ Iterate
  \/ \E r \in ResolveResponses(VOID_TYPE, invoice_number) : Resolve(r)
  \/ \E r \in InspectResponses(VOID_TYPE, invoice_number) : Inspect(r)
  \/ \E r \in MutateResponses : Mutate(r)
  \/ Count
  \/ Finish

\* The tool as run: check_config, main, and the batch it starts.
Init == InitMain
Next ==
  \/ CheckConfig
  \/ Main
  \/ JobNext
Spec == Init /\ [][Next]_vars

\* The same, with every step of the sequential program eventually taken:
\* a remote call returns or raises, a sleep ends.
FairSpec == Init /\ [][Next]_vars /\ WF_vars(Next)

\* process_void_job on any arguments.
SpecJob == InitJob /\ [][JobNext]_vars

(* ---- bulk runs: the tool on sets about the size of the threshold ---- *)
\* Every invoice number exists, is AUTHORISED, and its void is accepted.
HealthyResolve(vt, n) == Response(200, Listing(vt, <<ListItem(vt, n)>>))
HealthyInspect(vt, n) == Response(200, Listing(vt, <<FullInvoice(n, "AUTHORISED")>>))
HealthyMutate == Response(200, InvalidBody)

BulkSizes == (ThrottleThreshold - BulkSpread)..(ThrottleThreshold + BulkSpread)

InitBulk ==
  /\ entry = "main"
  /\ pc = "config"
  /\ DRY_RUN \in {"Enabled", "Disabled"}
  /\ VOID_TYPE \in {"Invoices", "CreditNotes"}
  /\ \E n \in BulkSizes : all_invoice_ids = 1..n
  /\ order = [i \in 1..Cardinality(all_invoice_ids) |-> i]
  /\ latency \in Latencies
  /\ oversleep \in Oversleeps(ChooseAllAtOnce(all_invoice_ids))
  /\ all_at_once = TRUE
  /\ Blank

BulkNext ==
  \/ CheckConfig
  \/ Main
  \/ StartJob
  \/ Iterate
  \/ Resolve(HealthyResolve(VOID_TYPE, invoice_number))
  \/ Inspect(HealthyInspect(VOID_TYPE, invoice_number))
  \/ Mutate(HealthyMutate)
  \/ Count
  \/ Finish

SpecBulk == InitBulk /\ [][BulkNext]_vars

(* ------------- the analysis of a failed void, on its own -------------- *)
InitAnalyse ==
  /\ entry = "job"
  /\ pc = "analyse"
  /\ DRY_RUN = "Disabled"
  /\ VOID_TYPE = "Invoices"
  /\ all_invoice_ids = {}
  /\ order = <<>>
  /\ latency = 0
  /\ oversleep = 0
  /\ all_at_once = TRUE
  /\ total_invoices = 0
  /\ processed = 0
  /\ idx = 0
  /\ start_time = 0
  /\ now = 0
  /\ eta = UnknownEta
  /\ invoice_number = 0
  /\ invoice_id = 0
  /\ invoice = NoInvoice
  /\ started = <<>>
  /\ calls = <<>>
  /\ report = <<>>
  /\ events = <<>>
  /\ remote_voided = {}
  /\ void_res \in ErrorBodies
  /\ analysis = "none"

\* lines 284-370 applied to void_res
Analyse ==
  /\ pc = "analyse"
  /\ analysis' = AnalyseError(void_res)
  /\ pc' = "analysed"
  /\ UNCHANGED <<config, job, tx, history, void_res, now>>

SpecAnalyse == InitAnalyse /\ [][Analyse]_vars

(* ------------- the loop of process_void_job between two items ---------- *)
\* the seconds a run has lasted when an item starts: a few ticks, or hours
\* when a remote call hung (requests is called without a timeout)
HourTicks == (2 * DaySeconds) \div 24
ElapsedTicks == (0..MaxElapsed) \cup {h * HourTicks : h \in 1..MaxHours}

\* process_void_job at the top of its loop (line 164), after any number of
\* items and any elapsed time; the histories of the earlier items are not kept.
InitEta ==
  /\ entry = "job"
  /\ pc = "loop"
  /\ DRY_RUN = "Disabled"
  /\ VOID_TYPE = "Invoices"
  /\ \E n \in 1..MaxTotal : all_invoice_ids = 1..n
  /\ order = [i \in 1..Cardinality(all_invoice_ids) |-> i]
  /\ latency = 0
  /\ all_at_once \in BOOLEAN
  /\ oversleep \in Oversleeps(all_at_once)
  /\ total_invoices = Cardinality(all_invoice_ids)
  /\ processed \in 0..(total_invoices - 1)
  /\ idx = processed + 1
  /\ start_time = 0
  /\ now \in IF processed = 0 THEN {0} ELSE ElapsedTicks
  /\ eta = UnknownEta
  /\ invoice_number = 0
  /\ invoice_id = 0
  /\ invoice = NoInvoice
  /\ started = <<>>
  /\ calls = <<>>
  /\ report = <<>>
  /\ events = <<>>
  /\ remote_voided = {}
  /\ void_res = InvalidBody
  /\ analysis = "none"

SpecEta == InitEta /\ [][Iterate]_vars

(* ============================== claims ================================= *)
\* how often the identifier id occurs in a history
Occ(seq, id) == Cardinality({i \in DOMAIN seq : seq[i].id = id})
\* how often the remote call op was issued for id
CallsOf(id, op) == Cardinality({i \in DOMAIN calls : calls[i].id = id /\ calls[i].op = op})
\* the outcomes recorded for id
OutcomesOf(id) == {report[i].outcome : i \in {j \in DOMAIN report : report[j].id = id}}
Failures == {"NotFound", "NetworkError", "UnexpectedError",
             "RetriableValidationError", "FatalValidationError"}

\* C1: when process_void_job completes, processed equals total, and every
\* identifier of the set was handed to void_invoice exactly once and has
\* exactly one recorded outcome; before that, none was handed over twice.
C1_ProcessedEqualsTotal ==
  /\ \A id \in all_invoice_ids : Occ(started, id) <= 1 /\ Occ(report, id) <= 1
  /\ pc = "done" =>
       /\ processed = total_invoices
       /\ total_invoices = Cardinality(all_invoice_ids)
       /\ \A id \in all_invoice_ids : Occ(started, id) = 1 /\ Occ(report, id) = 1
C1_Witness ==
  /\ pc = "done"
  /\ Cardinality(all_invoice_ids) >= 2
  /\ \E i, j \in DOMAIN report :
       report[i].outcome = "Voided" /\ report[j].outcome \in Failures

\* C2: no failure of one item stops the batch: no exception leaves
\* void_invoice, and once the batch driver is entered the run reaches its
\* completion with every identifier of the set attempted.
C2_BatchAlwaysCompletes ==
  /\ [](pc \notin {"main_error", "raised"})
  /\ (pc = "job") ~> (pc = "done" /\ \A id \in all_invoice_ids : Occ(started, id) = 1)
C2_Witness ==
  /\ pc = "done"
  /\ Len(report) >= 2
  /\ report[1].outcome = "UnexpectedError"
  /\ Occ(started, report[2].id) = 1

\* C3: an identifier whose inspected remote status is VOIDED ends with the
\* outcome AlreadyVoided and no mutate call is issued for it, at every
\* position of the batch.
C3_AlreadyVoidedNoMutate ==
  \A i \in DOMAIN calls :
    (calls[i].op = "inspect" /\ calls[i].got = "VOIDED") =>
      /\ OutcomesOf(calls[i].id) = {"AlreadyVoided"}
      /\ CallsOf(calls[i].id, "mutate") = 0
C3_Witness ==
  /\ pc = "done"
  /\ Len(report) >= 2
  /\ report[1].outcome = "Voided"
  /\ report[2].outcome = "AlreadyVoided"
  /\ \E i \in DOMAIN calls :
       calls[i].op = "inspect" /\ calls[i].got = "VOIDED" /\ calls[i].id = report[2].id

\* C4: an identifier whose resolve query returns zero matches ends with
\* the outcome NotFound, and neither an inspect nor a mutate call is issued
\* for it.
C4_NotFoundNoCalls ==
  \A i \in DOMAIN calls :
    (calls[i].op = "resolve" /\ calls[i].got = "empty") =>
      /\ OutcomesOf(calls[i].id) = {"NotFound"}
      /\ CallsOf(calls[i].id, "inspect") = 0
      /\ CallsOf(calls[i].id, "mutate") = 0
C4_Witness ==
  /\ pc = "done"
  /\ VOID_TYPE = "Invoices"
  /\ \E i \in DOMAIN calls : calls[i].op = "resolve" /\ calls[i].got = "empty"
  /\ \E i \in DOMAIN report : report[i].outcome = "NotFound"

\* C5: in a completed run in which every identifier was inspected with a
\* status other than VOIDED and every mutate call returned 200 or 204, every
\* outcome is Voided, one mutate call was issued per identifier, and
\* processed = total = the size of the set.
AllActiveAllAccepted ==
  /\ \A id \in all_invoice_ids :
       \E i \in DOMAIN calls :
         calls[i].id = id /\ calls[i].op = "inspect" /\ calls[i].got \notin {"VOIDED", "failed"}
  /\ \A i \in DOMAIN calls : calls[i].op = "mutate" => calls[i].status \in {200, 204}
C5_AllVoided ==
  (pc = "done" /\ AllActiveAllAccepted) =>
    /\ \A id \in all_invoice_ids :
         /\ OutcomesOf(id) = {"Voided"}
         /\ Occ(report, id) = 1
         /\ CallsOf(id, "mutate") = 1
         /\ id \in remote_voided
    /\ processed = total_invoices
    /\ total_invoices = Cardinality(all_invoice_ids)
C5_Witness ==
  /\ pc = "done"
  /\ AllActiveAllAccepted
  /\ Cardinality(all_invoice_ids) = 2
  /\ \E i, j \in DOMAIN calls :
       /\ calls[i].op = "mutate" /\ calls[i].status = 200
       /\ calls[j].op = "mutate" /\ calls[j].status = 204

\* C8: with DRY_RUN = "Enabled" the batch driver is never entered: no
\* resolve, inspect or mutate call is issued and no remote resource is voided.
BatchPositions == {"job", "returned", "loop", "resolve", "inspect", "mutate", "count", "done"}
C8_DryRunIssuesNothing ==
  DRY_RUN = "Enabled" =>
    /\ pc \notin BatchPositions
    /\ calls = <<>>
    /\ started = <<>>
    /\ remote_voided = {}
C8_Witness ==
  /\ DRY_RUN = "Enabled"
  /\ pc = "dry_run"
  /\ Cardinality(all_invoice_ids) >= 2

\* C6: with throttle on, the transactions of consecutive items start at least
\* 1.5 s apart, and so do any two successive mutate calls; with throttle off
\* the time between the starts of consecutive items is the duration of the
\* remote calls of the first of them, and the first item starts at once.
MutateTimes == {calls[i].t : i \in {j \in DOMAIN calls : calls[j].op = "mutate"}}
CallCount(id) == Cardinality({i \in DOMAIN calls : calls[i].id = id})
C7_RateCeiling ==
  \A i \in 1..(Len(calls) - RateLimit) :
    calls[i + RateLimit].t - calls[i].t >= WindowTicks

\* the validation entries of an analysed body, top-level first
EntriesOf(body) ==
  LET er == body.val
      top == IF "ValidationErrors" \in DOMAIN er THEN er["ValidationErrors"] ELSE <<>>
      nested == IF "Elements" \in DOMAIN er /\ er["Elements"] # <<>>
                   /\ "ValidationErrors" \in DOMAIN er["Elements"][1]
                  THEN er["Elements"][1]["ValidationErrors"] ELSE <<>>
  IN  top \o nested
\* a line-total message with two decimal numbers (actual, expected)
IsMismatch(e) ==
  /\ "Message" \in DOMAIN e
  /\ MentionsLineTotal(e["Message"])
  /\ Len(FindNumbers(e["Message"])) >= 2
\* |actual - expected| in cents
Difference(e) ==
  Abs(FindNumbers(e["Message"])[1].v - FindNumbers(e["Message"])[2].v)

\* C9: a failed void whose only validation message is a line-total mismatch
\* is rounding-tolerated if and only if |actual - expected| <= 0.02, and
\* fatal otherwise, in either payload shape.
C9_RoundingThreshold ==
  (/\ pc = "analysed"
   /\ void_res.kind = "object"
   /\ Len(EntriesOf(void_res)) = 1
   /\ IsMismatch(EntriesOf(void_res)[1])) =>
     IF Difference(EntriesOf(void_res)[1]) <= Tolerance
       THEN OutcomeOfAnalysis(analysis) = "RetriableValidationError"
       ELSE OutcomeOfAnalysis(analysis) = "FatalValidationError"

\* C10: with several validation messages, the outcome is rounding-tolerated
\* as soon as one of them is a line-total mismatch of at most 0.02, in any
\* order and either shape, and fatal only when none is.
C10_LeastSevereWins ==
  (/\ pc = "analysed"
   /\ void_res.kind = "object"
   /\ Len(EntriesOf(void_res)) >= 2
   /\ \A i \in DOMAIN EntriesOf(void_res) : "Message" \in DOMAIN EntriesOf(void_res)[i]) =>
     LET supported == \E i \in DOMAIN EntriesOf(void_res) :
                        /\ IsMismatch(EntriesOf(void_res)[i])
                        /\ Difference(EntriesOf(void_res)[i]) <= Tolerance
     IN  /\ supported => OutcomeOfAnalysis(analysis) = "RetriableValidationError"
         /\ OutcomeOfAnalysis(analysis) = "FatalValidationError" => ~supported

\* C11: the identifiers are processed in an order fixed by the set alone, the
\* sorted order: in every run the transactions start in ascending order of
\* the invoice numbers.
C11_DeterministicOrder ==
  \A i, j \in DOMAIN started : i < j => started[i].id < started[j].id

\* the ID field of a resource of the collection vt
IdField(vt) == IF vt = "Invoices" THEN "InvoiceID" ELSE "CreditNoteID"

\* C12: for either target type, an identifier whose resolve listing holds a
\* match in the collection named after VOID_TYPE is not reported NotFound,
\* and every mutate payload is keyed by that collection and its ID field.
C12_BothTargetTypes ==
  /\ \A i \in DOMAIN calls :
       (calls[i].op = "resolve" /\ calls[i].got = "match") =>
         "NotFound" \notin OutcomesOf(calls[i].id)
  /\ \A i \in DOMAIN calls :
       calls[i].op = "mutate" =>
         /\ DOMAIN calls[i].sent = {VOID_TYPE}
         /\ IdField(VOID_TYPE) \in DOMAIN calls[i].sent[VOID_TYPE][1]

\* C13: the caller paces the run exactly when the set has more than 60
\* elements: throughout the batch all_at_once is TRUE for a set of 60 or
\* fewer and FALSE for a set of 61 or more, so it never changes during a run.
C13_ThrottleChoice ==
  pc \in BatchPositions =>
    all_at_once = (Cardinality(all_invoice_ids) <= 60)
C13_Witness ==
  /\ pc = "done"
  /\ Cardinality(all_invoice_ids) = 61
  /\ ~all_at_once
  /\ Len(started) = 61

\* C14: exactly one progress line carrying (identifier, outcome, processed,
\* total, ETA) is printed for every identifier of the run, whatever its
\* outcome, and the processed values of successive lines are 1, 2, ..., total.
C14_OneProgressEventEach ==
  /\ \A id \in all_invoice_ids : Occ(events, id) <= 1
  /\ \A k \in DOMAIN events : events[k].processed = k
  /\ pc = "done" =>
       /\ Len(events) = total_invoices
       /\ \A id \in all_invoice_ids : Occ(events, id) = 1

\* C15: in every state 0 <= processed <= total; total does not change once
\* the loop is entered; processed changes only by +1, and does so exactly
\* once for each call of void_invoice that returned, whatever its outcome:
\* between two calls processed is the number of calls that returned.
InLoop == {"loop", "resolve", "inspect", "mutate", "count", "done"}
C15_RunProgress ==
  /\ [](/\ 0 <= processed
        /\ processed <= total_invoices
        /\ pc \in {"loop", "resolve", "inspect", "mutate", "done"} => processed = Len(report)
        /\ pc = "count" => processed + 1 = Len(report))
  /\ [][/\ pc \in InLoop => total_invoices' = total_invoices
        /\ processed' # processed => (pc = "count" /\ processed' = processed + 1)
        /\ pc = "count" => processed' = processed + 1]_vars
C15_Witness ==
  /\ pc = "done"
  /\ processed = 2
  /\ total_invoices = 2
  /\ report[1].outcome = "AlreadyVoided"
  /\ report[2].outcome = "FatalValidationError"

\* a decoded body with neither a top-level ValidationErrors list nor an
\* Elements entry that has one
NeitherShape(body) ==
  \/ body.kind = "array"
  \/ /\ body.kind = "object"
     /\ "ValidationErrors" \notin DOMAIN body.val
     /\ "Elements" \in DOMAIN body.val =>
          \A i \in DOMAIN body.val["Elements"] :
            "ValidationErrors" \notin DOMAIN body.val["Elements"][i]

\* C16: the analysis of a rejected void whose body has neither a top-level
\* ValidationErrors list nor an Elements entry with one (an empty Elements
\* list included) ends in the generic branch, a FatalValidationError; it is
\* never the rounding-tolerated outcome, and neither is the analysis of a
\* body that cannot be decoded.
C16_NoShapeIsFatal ==
  pc = "analysed" =>
    /\ NeitherShape(void_res) =>
         /\ analysis = "no_validation_errors"
         /\ OutcomeOfAnalysis(analysis) = "FatalValidationError"
    /\ void_res.kind = "invalid" =>
         OutcomeOfAnalysis(analysis) \notin {"Voided", "RetriableValidationError"}
C16_Witness ==
  /\ pc = "analysed"
  /\ void_res = Obj([Elements |-> <<>>])
  /\ analysis = "no_validation_errors"

\* C17: on an empty set the run ends at once and is not an error: main exits
\* with status 0 and process_void_job returns before its loop; no resolve,
\* inspect or mutate call is issued, no sleep is taken and nothing is reported.
C17_EmptySetNoOp ==
  (all_invoice_ids = {} /\ pc \notin {"config", "exit_1"}) =>
    /\ pc \in {"main", "exit_0", "job", "returned"}
    /\ calls = <<>>
    /\ started = <<>>
    /\ report = <<>>
    /\ remote_voided = {}
    /\ now = 0
C17_Witness ==
  /\ all_invoice_ids = {}
  /\ pc = "returned"
  /\ ~all_at_once
  /\ total_invoices = 0

\* a lookup call that met a transport failure: a connection error (status 0
\* in the history) or a response outside 2xx
TransportFailure(c) ==
  /\ c.op \in {"resolve", "inspect"}
  /\ c.status \notin 200..299

\* C18: an identifier whose resolve or inspect call meets a transport failure
\* (a connection error or a non-2xx response) ends with the outcome
\* NetworkError; after such a resolve no inspect call is issued for it, and no
\* mutate call is ever issued for an identifier whose resolve or inspect call
\* did not succeed.
C18_TransportFailureStops ==
  \A i \in DOMAIN calls :
    /\ TransportFailure(calls[i]) =>
         /\ OutcomesOf(calls[i].id) = {"NetworkError"}
         /\ calls[i].op = "resolve" => CallsOf(calls[i].id, "inspect") = 0
    /\ (calls[i].op \in {"resolve", "inspect"} /\ calls[i].got = "failed") =>
         CallsOf(calls[i].id, "mutate") = 0
C18_Witness ==
  /\ pc = "done"
  /\ Len(report) = 2
  /\ report[1].outcome = "NetworkError"
  /\ report[2].outcome = "NetworkError"
  /\ \E i, j \in DOMAIN calls :
       /\ calls[i].id = report[1].id /\ calls[i].op = "resolve" /\ calls[i].status = 429
       /\ calls[j].id = report[2].id /\ calls[j].op = "inspect" /\ calls[j].status = 0

\* the resource received by the call op of the identifier id
Received(id, op) ==
  calls[CHOOSE j \in DOMAIN calls : calls[j].id = id /\ calls[j].op = op].item
\* the resource sent by the mutate call c
Sent(c) == c.sent["Invoices"][1]

\* C19: every field of the mutate payload besides Status = VOIDED, the
\* resource ID included, is a field of the resource the inspect call of the
\* same transaction returned, with the same value; a field absent from that
\* resource is absent from the payload.
C19_PayloadFromInspect ==
  \A i \in DOMAIN calls :
    calls[i].op = "mutate" =>
      /\ Sent(calls[i])["Status"] = "VOIDED"
      /\ \A f \in DOMAIN Sent(calls[i]) \ {"Status"} :
           /\ f \in DOMAIN Received(calls[i].id, "inspect")
           /\ Sent(calls[i])[f] = Received(calls[i].id, "inspect")[f]

\* C19, amended: the resource ID of the mutate payload is the one of the
\* resolve listing of the same transaction (the one the inspect call was
\* addressed to); every other field besides Status = VOIDED is one of Type,
\* Contact, Date, DueDate, LineAmountTypes, LineItems, is a field of the
\* resource the inspect call of the same transaction returned and has its
\* value; a field absent from that resource is absent from the payload.
C19_PayloadFromLookup ==
  \A i \in DOMAIN calls :
    calls[i].op = "mutate" =>
      /\ Sent(calls[i])["Status"] = "VOIDED"
      /\ Sent(calls[i])["InvoiceID"] = Received(calls[i].id, "resolve")["InvoiceID"]
      /\ \A f \in DOMAIN Sent(calls[i]) \ {"Status", "InvoiceID"} :
           /\ f \in {"Type", "Contact", "Date", "DueDate", "LineAmountTypes", "LineItems"}
           /\ f \in DOMAIN Received(calls[i].id, "inspect")
           /\ Sent(calls[i])[f] = Received(calls[i].id, "inspect")[f]
C19_Witness ==
  /\ pc = "done"
  /\ \E i, j \in DOMAIN calls :
       /\ calls[i].op = "mutate"
       /\ DOMAIN Sent(calls[i]) = {"InvoiceID", "Status", "Type"}
       /\ "InvoiceID" \notin DOMAIN Received(calls[i].id, "inspect")
       /\ calls[j].op = "mutate"
       /\ "LineItems" \in DOMAIN Sent(calls[j])
       /\ "Total" \in DOMAIN Received(calls[j].id, "inspect")

\* C20: the remote calls of one identifier are consecutive and in the order
\* resolve, inspect, mutate; an inspect call directly follows a resolve of
\* the same identifier that found a match, a mutate call directly follows an
\* inspect of the same identifier whose status is not VOIDED, and no call is
\* issued twice for an identifier (a failed mutate is not retried).
C20_ProtocolOrder ==
  /\ \A i, j \in DOMAIN calls :
       (i < j /\ calls[i].id = calls[j].id) =>
         \A k \in i..j : calls[k].id = calls[i].id
  /\ \A i \in DOMAIN calls :
       /\ calls[i].op = "resolve" => (i = 1 \/ calls[i - 1].id # calls[i].id)
       /\ calls[i].op = "inspect" =>
            /\ i > 1
            /\ calls[i - 1].id = calls[i].id
            /\ calls[i - 1].op = "resolve"
            /\ calls[i - 1].got = "match"
       /\ calls[i].op = "mutate" =>
            /\ i > 1
            /\ calls[i - 1].id = calls[i].id
            /\ calls[i - 1].op = "inspect"
            /\ calls[i - 1].got \notin {"VOIDED", "failed"}
  /\ \A id \in all_invoice_ids :
       \A op \in {"resolve", "inspect", "mutate"} : CallsOf(id, op) <= 1
C20_Witness ==
  /\ pc = "done"
  /\ Len(calls) = 6
  /\ calls[3].op = "mutate"
  /\ calls[3].status = 400
  /\ calls[6].op = "mutate"
  /\ calls[6].status = 200
  /\ calls[4].id # calls[3].id

\* C21: the ETA handed to void_invoice with the first item of a run, before
\* any item has completed, is unknown; with every later item it is the whole
\* seconds of (elapsed time / completed items) * remaining items, which is
\* never negative and is computed with a non-zero divisor.
C21_EtaLaw ==
  pc = "resolve" =>
    IF processed = 0
      THEN ~eta.known
      ELSE /\ eta.known
           /\ eta.secs >= 0
           /\ eta.secs = ((total_invoices - processed) * (now - start_time)) \div (2 * processed)

====
